---- MODULE Spec2Model ----
(***************************************************************************)
(* Model of the thread pool of src/src/lib.rs: a ThreadPool that owns the  *)
(* Sender of an mpsc channel and a Vec of Workers, each Worker running a   *)
(* thread that loops on  receiver.lock().unwrap().recv().unwrap()  and     *)
(* either runs the job it received or breaks on Terminate.  The thread     *)
(* that owns the pool constructs it, calls execute, and drops it.          *)
(*                                                                         *)
(* Two results of the code are never produced in a reachable state and     *)
(* have no action: recv() returning Err (the Sender is dropped only after  *)
(* drop has sent one Terminate per worker, so a worker that still runs     *)
(* always finds a message), and lock() returning a PoisonError (a worker   *)
(* panics only inside job(), where it does not hold the guard).            *)
(***************************************************************************)
EXTENDS Integers, Sequences, FiniteSets, TLC

\* ------------------------------------------------------------------ bounds
MaxSize == 3        \* largest size passed to ThreadPool::new
MaxJobs == 2        \* largest number of execute calls
MaxFairSize == 2    \* largest size passed to ThreadPool::new under fairness

VARIABLES
    pc,             \* position of the thread that owns the pool
    size,           \* the argument of ThreadPool::new
    nextId,         \* loop variable id of `for id in 0..size`
    channelCreated, \* mpsc::channel() has been called
    senderAlive,    \* the pool's Sender exists and has not been dropped
    queue,          \* messages in the channel, oldest first
    enqueued,       \* number of messages ever sent (gives each its place)
    deqLog,         \* places of the messages received, in order of receipt
    submitted,      \* number of jobs sent by execute
    termSent,       \* iterations done of the first loop of drop
    joinIdx,        \* iterations done of the second loop of drop
    wstate,         \* wstate[id]: position of worker id's thread
    msg,            \* msg[id]: the `message` local of worker id's thread
    thread,         \* thread[id]: Worker.thread, "Some" or "None"
    lock,           \* holder of the receiver Mutex, or NoHolder
    invokers,       \* invokers[j]: ids of the workers that called job j
    finished,       \* jobs whose call returned
    failed,         \* jobs whose call panicked
    termsGot,       \* termsGot[id]: Terminate messages matched by worker id
    dropUnderLoad   \* drop began while a worker was inside job() and a
                    \* message waited in the channel

vars == <<pc, size, nextId, channelCreated, senderAlive, queue, enqueued,
          deqLog, submitted, termSent, joinIdx, wstate, msg, thread, lock,
          invokers, finished, failed, termsGot, dropUnderLoad>>

\* ---------------------------------------------------------------- messages
\* The Mutex around the Receiver is held by no worker.
NoHolder == -1

\* The `message` local of a worker that holds no message.
NoMsg == [type |-> "None", job |-> 0, seq |-> 0]

\* Message::NewJob(job): job j is the j-th closure given to execute; n is
\* the place of the message among all messages sent.
NewJob(j, n) == [type |-> "NewJob", job |-> j, seq |-> n]

\* Message::Terminate
Terminate(n) == [type |-> "Terminate", job |-> 0, seq |-> n]

\* self.workers, by id
Workers == DOMAIN wstate

\* The thread of worker w has ended, by break or by panic.
Ended(w) == wstate[w] \in {"terminated", "panicked"}

\* Mutant of ReceiverAlive: send is taken to succeed for as long as the
\* channel exists, whether or not a receiver is left.
ReceiverAliveWithChannel == channelCreated

\* The Receiver lives in an Arc: one clone is the local `receiver` of
\* ThreadPool::new, one is moved into each worker's closure and is dropped
\* when that thread ends.  send fails exactly when no clone is left.
ReceiverAlive ==
    /\ channelCreated
    /\ \/ pc = "spawning"
       \/ \E w \in Workers : ~Ended(w)

\* Mutant of SendReady: a channel with room for one message, as made by
\* mpsc::sync_channel(1), where send waits while the channel is full.
SendReadyRoomForOne(q) == Len(q) < 1

\* mpsc::channel() is unbounded: send never waits for room.
SendReady(q) == TRUE

\* Sender::send: the message goes to the back of the channel.
Send(q, m) == Append(q, m)

\* Mutant of RecvPos: the newest message is taken.
RecvPosNewest(q) == Len(q)

\* Receiver::recv takes the message at this position: the oldest.
RecvPos(q) == 1

\* Mutant of RecvRest: the message taken stays in the channel.
RecvRestKeep(q) == q

\* Receiver::recv: what is left in the channel once the message is taken.
RecvRest(q) == SubSeq(q, 1, RecvPos(q) - 1) \o SubSeq(q, RecvPos(q) + 1, Len(q))

\* Extend a function over 0..n-1 by the value v at n (Vec::push).
Push(f, n, v) == [i \in 0..n |-> IF i = n THEN v ELSE f[i]]

\* ------------------------------------------------------------------- Init
Init ==
    /\ pc = "init"
    /\ size = 0
    /\ nextId = 0
    /\ channelCreated = FALSE
    /\ senderAlive = FALSE
    /\ queue = <<>>
    /\ enqueued = 0
    /\ deqLog = <<>>
    /\ submitted = 0
    /\ termSent = 0
    /\ joinIdx = 0
    /\ wstate = <<>>
    /\ msg = <<>>
    /\ thread = <<>>
    /\ lock = NoHolder
    /\ invokers = [j \in 1..MaxJobs |-> <<>>]
    /\ finished = {}
    /\ failed = {}
    /\ termsGot = <<>>
    /\ dropUnderLoad = FALSE

\* ------------------------------------------------------- ThreadPool::new
\* Mutant of SizeOk: the assert is missing.
SizeOkAlways(n) == TRUE

\* assert!(size > 0)
SizeOk(n) == n > 0

\* The assert, then mpsc::channel() and Vec::with_capacity(size).
NewPool(n) ==
    /\ pc = "init"
    /\ size' = n
    /\ IF SizeOk(n)
         THEN /\ pc' = "spawning"
              /\ channelCreated' = TRUE
              /\ senderAlive' = TRUE
         ELSE /\ pc' = "panicked_new"
              /\ UNCHANGED <<channelCreated, senderAlive>>
    /\ UNCHANGED <<nextId, queue, enqueued, deqLog, submitted, termSent,
                   joinIdx, wstate, msg, thread, lock, invokers, finished,
                   failed, termsGot, dropUnderLoad>>

New == \E n \in 0..MaxSize : NewPool(n)

\* ThreadPool::new for the sizes checked under fairness.
NewFair == \E n \in 0..MaxFairSize : NewPool(n)

\* One iteration of `for id in 0..size`: Worker::new spawns the thread,
\* which starts at the top of its loop, and the Worker is pushed.
SpawnWorker ==
    /\ pc = "spawning"
    /\ nextId < size
    /\ wstate' = Push(wstate, nextId, "idle")
    /\ msg' = Push(msg, nextId, NoMsg)
    /\ thread' = Push(thread, nextId, "Some")
    /\ termsGot' = Push(termsGot, nextId, 0)
    /\ nextId' = nextId + 1
    /\ UNCHANGED <<pc, size, channelCreated, senderAlive, queue, enqueued,
                   deqLog, submitted, termSent, joinIdx, lock, invokers,
                   finished, failed, dropUnderLoad>>

\* The loop is over: ThreadPool { workers, sender } is returned.
NewReturn ==
    /\ pc = "spawning"
    /\ nextId = size
    /\ pc' = "live"
    /\ UNCHANGED <<size, nextId, channelCreated, senderAlive, queue,
                   enqueued, deqLog, submitted, termSent, joinIdx, wstate,
                   msg, thread, lock, invokers, finished, failed, termsGot,
                   dropUnderLoad>>

\* --------------------------------------------------- ThreadPool::execute
\* self.sender.send(Message::NewJob(job)).unwrap()
Execute ==
    /\ pc = "live"
    /\ submitted < MaxJobs
    /\ IF ReceiverAlive
         THEN /\ SendReady(queue)
              /\ queue' = Send(queue, NewJob(submitted + 1, enqueued + 1))
              /\ enqueued' = enqueued + 1
              /\ submitted' = submitted + 1
              /\ UNCHANGED pc
         ELSE /\ pc' = "panicked_execute"
              /\ UNCHANGED <<queue, enqueued, submitted>>
    /\ UNCHANGED <<size, nextId, channelCreated, senderAlive, deqLog,
                   termSent, joinIdx, wstate, msg, thread, lock, invokers,
                   finished, failed, termsGot, dropUnderLoad>>

\* ------------------------------------------------------ ThreadPool::drop
\* The workers that are inside job().
Executing == {w \in Workers : wstate[w] = "executing"}

\* The pool goes out of scope: drop is entered.
DropBegin ==
    /\ pc = "live"
    /\ pc' = "terminating"
    /\ dropUnderLoad' = (Executing # {} /\ queue # <<>>)
    /\ UNCHANGED <<size, nextId, channelCreated, senderAlive, queue,
                   enqueued, deqLog, submitted, termSent, joinIdx, wstate,
                   msg, thread, lock, invokers, finished, failed, termsGot>>

\* Mutant of TerminatesToSend: the first loop stops one iteration early.
TerminatesOneShort == Cardinality(Workers) - 1

\* Iterations of `for _ in &self.workers`: one for each worker.
TerminatesToSend == Cardinality(Workers)

\* One iteration of the first loop:
\* self.sender.send(Message::Terminate).unwrap()
SendTerminate ==
    /\ pc = "terminating"
    /\ termSent < TerminatesToSend
    /\ IF ReceiverAlive
         THEN /\ SendReady(queue)
              /\ queue' = Send(queue, Terminate(enqueued + 1))
              /\ enqueued' = enqueued + 1
              /\ termSent' = termSent + 1
              /\ UNCHANGED pc
         ELSE /\ pc' = "panicked_send"
              /\ UNCHANGED <<queue, enqueued, termSent>>
    /\ UNCHANGED <<size, nextId, channelCreated, senderAlive, deqLog,
                   submitted, joinIdx, wstate, msg, thread, lock, invokers,
                   finished, failed, termsGot, dropUnderLoad>>

\* The first loop is over, the second loop is entered.
BeginJoin ==
    /\ pc = "terminating"
    /\ termSent = TerminatesToSend
    /\ pc' = "joining"
    /\ UNCHANGED <<size, nextId, channelCreated, senderAlive, queue,
                   enqueued, deqLog, submitted, termSent, joinIdx, wstate,
                   msg, thread, lock, invokers, finished, failed, termsGot,
                   dropUnderLoad>>

\* Mutant of JoinReturns: the handle is dropped instead of joined, which
\* does not wait for the thread.
JoinReturnsAtOnce(w) == TRUE

\* JoinHandle::join returns once the thread has ended.
JoinReturns(w) == Ended(w)

\* One iteration of `for worker in &mut self.workers`:
\* worker.thread.take(), then thread.join().unwrap(): join gives Err when
\* the thread panicked, and the unwrap then panics inside drop, which drops
\* the fields of the pool while unwinding.
Join ==
    /\ pc = "joining"
    /\ joinIdx < Cardinality(Workers)
    /\ IF thread[joinIdx] = "Some"
         THEN /\ JoinReturns(joinIdx)
              /\ thread' = [thread EXCEPT ![joinIdx] = "None"]
              /\ IF wstate[joinIdx] = "panicked"
                   THEN /\ pc' = "panicked_join"
                        /\ senderAlive' = FALSE
                        /\ UNCHANGED joinIdx
                   ELSE /\ joinIdx' = joinIdx + 1
                        /\ UNCHANGED <<pc, senderAlive>>
         ELSE /\ joinIdx' = joinIdx + 1
              /\ UNCHANGED <<pc, senderAlive, thread>>
    /\ UNCHANGED <<size, nextId, channelCreated, queue, enqueued, deqLog,
                   submitted, termSent, wstate, msg, lock, invokers,
                   finished, failed, termsGot, dropUnderLoad>>

\* drop returns; the fields of the pool, the Sender among them, are dropped.
DropEnd ==
    /\ pc = "joining"
    /\ joinIdx = Cardinality(Workers)
    /\ pc' = "done"
    /\ senderAlive' = FALSE
    /\ UNCHANGED <<size, nextId, channelCreated, queue, enqueued, deqLog,
                   submitted, termSent, joinIdx, wstate, msg, thread, lock,
                   invokers, finished, failed, termsGot, dropUnderLoad>>

\* ---------------------------------------------------- Worker::new thread
\* Mutant of MutexFree: the receiver is shared without a Mutex, so lock()
\* never has to wait.
MutexFreeAlways == TRUE

\* Mutex::lock can return: no worker holds the guard.
MutexFree == lock = NoHolder

\* receiver.lock(): blocks until the Mutex is free.
Lock(w) ==
    /\ wstate[w] = "idle"
    /\ MutexFree
    /\ lock' = w
    /\ wstate' = [wstate EXCEPT ![w] = "recv"]
    /\ UNCHANGED <<pc, size, nextId, channelCreated, senderAlive, queue,
                   enqueued, deqLog, submitted, termSent, joinIdx, msg,
                   thread, invokers, finished, failed, termsGot, dropUnderLoad>>

\* .recv(): blocks until a message is in the channel, and takes it.
Recv(w) ==
    /\ wstate[w] = "recv"
    /\ queue # <<>>
    /\ msg' = [msg EXCEPT ![w] = queue[RecvPos(queue)]]
    /\ queue' = RecvRest(queue)
    /\ deqLog' = Append(deqLog, queue[RecvPos(queue)].seq)
    /\ wstate' = [wstate EXCEPT ![w] = "received"]
    /\ UNCHANGED <<pc, size, nextId, channelCreated, senderAlive, enqueued,
                   submitted, termSent, joinIdx, thread, lock, invokers,
                   finished, failed, termsGot, dropUnderLoad>>

\* Mutant of GuardAfterLet: the guard is bound to a local and outlives the
\* statement.
GuardKept(w) == w

\* The holder of the Mutex once the `let message = ...;` statement of
\* worker w is over: the MutexGuard is a temporary of that statement and
\* is dropped with it.
GuardAfterLet(w) == NoHolder

\* End of the `let message` statement.
Unlock(w) ==
    /\ wstate[w] = "received"
    /\ lock' = GuardAfterLet(w)
    /\ wstate' = [wstate EXCEPT ![w] = "matching"]
    /\ UNCHANGED <<pc, size, nextId, channelCreated, senderAlive, queue,
                   enqueued, deqLog, submitted, termSent, joinIdx, msg,
                   thread, invokers, finished, failed, termsGot, dropUnderLoad>>

\* Mutant of DuringJob: the job is handed to another thread and the loop
\* goes on without waiting for it.
DuringJobDetached == "idle"

\* The NewJob arm calls job() in the worker's own thread: the thread is
\* inside the call until it returns.
DuringJob == "executing"

\* Mutant of AfterTerminate: the break is missing and the loop goes on.
AfterTerminateLoop == "idle"

\* The Terminate arm: break ends the loop, and with it the thread.
AfterTerminate == "terminated"

\* match message: NewJob(job) calls job(), Terminate breaks.
Match(w) ==
    /\ wstate[w] = "matching"
    /\ IF msg[w].type = "NewJob"
         THEN /\ wstate' = [wstate EXCEPT ![w] = DuringJob]
              /\ invokers' = [invokers EXCEPT ![msg[w].job] = Append(@, w)]
              /\ UNCHANGED termsGot
         ELSE /\ wstate' = [wstate EXCEPT ![w] = AfterTerminate]
              /\ termsGot' = [termsGot EXCEPT ![w] = @ + 1]
              /\ UNCHANGED invokers
    /\ UNCHANGED <<pc, size, nextId, channelCreated, senderAlive, queue,
                   enqueued, deqLog, submitted, termSent, joinIdx, msg,
                   thread, lock, finished, failed, dropUnderLoad>>

\* Mutant of AfterJob: the closure has no loop and ends after one job.
AfterJobExit == "terminated"

\* The position of the thread when job() has returned: `loop` starts over.
AfterJob == "idle"

\* job() returns.
JobReturn(w) ==
    /\ wstate[w] = "executing"
    /\ finished' = finished \cup {msg[w].job}
    /\ wstate' = [wstate EXCEPT ![w] = AfterJob]
    /\ msg' = [msg EXCEPT ![w] = NoMsg]
    /\ UNCHANGED <<pc, size, nextId, channelCreated, senderAlive, queue,
                   enqueued, deqLog, submitted, termSent, joinIdx, thread,
                   lock, invokers, failed, termsGot, dropUnderLoad>>

\* Mutant of AfterPanic: the panic is caught and the loop goes on.
AfterPanicCaught == "idle"

\* The position of the thread when job() has panicked: nothing in the
\* closure catches the panic, so the thread unwinds and ends.
AfterPanic == "panicked"

\* job() panics: nothing catches it, the thread unwinds and ends.
JobPanic(w) ==
    /\ wstate[w] = "executing"
    /\ failed' = failed \cup {msg[w].job}
    /\ wstate' = [wstate EXCEPT ![w] = AfterPanic]
    /\ msg' = [msg EXCEPT ![w] = NoMsg]
    /\ UNCHANGED <<pc, size, nextId, channelCreated, senderAlive, queue,
                   enqueued, deqLog, submitted, termSent, joinIdx, thread,
                   lock, invokers, finished, termsGot, dropUnderLoad>>

\* One step of the loop of worker w when its job does not panic.
WorkerStep(w) == Lock(w) \/ Recv(w) \/ Unlock(w) \/ Match(w) \/ JobReturn(w)

\* The steps of ThreadPool::new.
ConstructStep == New \/ SpawnWorker \/ NewReturn

\* The steps of ThreadPool::new for the sizes checked under fairness.
ConstructStepFair == NewFair \/ SpawnWorker \/ NewReturn

\* The steps of drop once it is entered.
DropStep == SendTerminate \/ BeginJoin \/ Join \/ DropEnd

\* ------------------------------------------------------- specifications
Next ==
    \/ ConstructStep
    \/ Execute
    \/ DropBegin
    \/ DropStep
    \/ \E w \in Workers : WorkerStep(w)
    \/ \E w \in Workers : JobPanic(w)

Spec == Init /\ [][Next]_vars

\* The program when no job panics.
NextNoFail ==
    \/ ConstructStep
    \/ Execute
    \/ DropBegin
    \/ DropStep
    \/ \E w \in Workers : WorkerStep(w)

SpecNoFail == Init /\ [][NextNoFail]_vars

\* The program when no job panics, for pools of at most MaxFairSize workers.
NextFair ==
    \/ ConstructStepFair
    \/ Execute
    \/ DropBegin
    \/ DropStep
    \/ \E w \in Workers : WorkerStep(w)

\* Every thread that can take a step eventually takes one: the thread that
\* owns the pool while it is inside new or inside drop, and each worker
\* thread.  Nothing obliges the owner to call execute or to drop the pool.
Fairness ==
    /\ WF_vars(ConstructStepFair)
    /\ WF_vars(DropStep)
    /\ \A w \in 0..(MaxFairSize - 1) : WF_vars(w \in Workers /\ WorkerStep(w))

FairSpecNoFail == Init /\ [][NextFair]_vars /\ Fairness

\* ------------------------------------- the single-loop drop of the comment
\* The comment that closes drop describes the alternative it rejects: both
\* steps in one loop, `for worker in &mut self.workers` sending a Terminate
\* and joining that worker right away.  It is modelled to compare the two.

\* The pool goes out of scope and the single-loop drop is entered.
DropBeginSinglePass ==
    /\ pc = "live"
    /\ pc' = "single_send"
    /\ dropUnderLoad' = (Executing # {} /\ queue # <<>>)
    /\ UNCHANGED <<size, nextId, channelCreated, senderAlive, queue,
                   enqueued, deqLog, submitted, termSent, joinIdx, wstate,
                   msg, thread, lock, invokers, finished, failed, termsGot>>

\* First half of an iteration: self.sender.send(Message::Terminate).unwrap()
SinglePassSend ==
    /\ pc = "single_send"
    /\ joinIdx < Cardinality(Workers)
    /\ IF ReceiverAlive
         THEN /\ SendReady(queue)
              /\ queue' = Send(queue, Terminate(enqueued + 1))
              /\ enqueued' = enqueued + 1
              /\ termSent' = termSent + 1
              /\ pc' = "single_join"
         ELSE /\ pc' = "panicked_send"
              /\ UNCHANGED <<queue, enqueued, termSent>>
    /\ UNCHANGED <<size, nextId, channelCreated, senderAlive, deqLog,
                   submitted, joinIdx, wstate, msg, thread, lock, invokers,
                   finished, failed, termsGot, dropUnderLoad>>

\* Second half of the iteration: worker.thread.take() and
\* thread.join().unwrap() on the same worker.
SinglePassJoin ==
    /\ pc = "single_join"
    /\ JoinReturns(joinIdx)
    /\ thread' = [thread EXCEPT ![joinIdx] = "None"]
    /\ IF wstate[joinIdx] = "panicked"
         THEN /\ pc' = "panicked_join"
              /\ senderAlive' = FALSE
              /\ UNCHANGED joinIdx
         ELSE /\ joinIdx' = joinIdx + 1
              /\ pc' = "single_send"
              /\ UNCHANGED senderAlive
    /\ UNCHANGED <<size, nextId, channelCreated, queue, enqueued, deqLog,
                   submitted, termSent, wstate, msg, lock, invokers,
                   finished, failed, termsGot, dropUnderLoad>>

\* The single loop is over: drop returns and the Sender is dropped.
SinglePassEnd ==
    /\ pc = "single_send"
    /\ joinIdx = Cardinality(Workers)
    /\ pc' = "done"
    /\ senderAlive' = FALSE
    /\ UNCHANGED <<size, nextId, channelCreated, queue, enqueued, deqLog,
                   submitted, termSent, joinIdx, wstate, msg, thread, lock,
                   invokers, finished, failed, termsGot, dropUnderLoad>>

\* The steps of the single-loop drop once it is entered.
SinglePassStep == SinglePassSend \/ SinglePassJoin \/ SinglePassEnd

\* The program when no job panics and the pool is dropped either by the
\* drop of the code or by the single-loop drop of the comment, for pools of
\* at most MaxFairSize workers.
NextDropVariants ==
    \/ ConstructStepFair
    \/ Execute
    \/ DropBegin
    \/ DropStep
    \/ DropBeginSinglePass
    \/ SinglePassStep
    \/ \E w \in Workers : WorkerStep(w)

SpecDropVariants == Init /\ [][NextDropVariants]_vars

\* ================================================================ claims
\* The jobs whose NewJob message is in the channel or is in the hands of a
\* worker that has not yet called the job.
Pending ==
    {queue[i].job : i \in {k \in 1..Len(queue) : queue[k].type = "NewJob"}}
    \cup {msg[w].job : w \in {v \in Workers :
                                 /\ wstate[v] \in {"received", "matching"}
                                 /\ msg[v].type = "NewJob"}}

\* C1: every submitted job is either still waiting and not yet called, or
\* no longer waiting and called exactly once, by one worker; a job that was
\* not submitted is never called.  So once no job waits, the number of
\* calls is the number of jobs submitted.
C1_EachJobInvokedExactlyOnce ==
    /\ \A j \in 1..MaxJobs :
          IF j \in 1..submitted
            THEN \/ j \in Pending /\ invokers[j] = <<>>
                 \/ j \notin Pending /\ Len(invokers[j]) = 1
                                     /\ invokers[j][1] \in Workers
            ELSE invokers[j] = <<>> /\ j \notin Pending
    /\ finished \cup failed \subseteq {j \in 1..MaxJobs : invokers[j] # <<>>}

\* C1 witness: all MaxJobs jobs were submitted to a pool of at least two
\* workers, each was called once and returned, by two different workers.
C1_Witness ==
    /\ size >= 2
    /\ submitted = MaxJobs
    /\ finished = 1..MaxJobs
    /\ \A j \in 1..MaxJobs : Len(invokers[j]) = 1
    /\ invokers[1] # invokers[2]

\* C2: when drop has joined its last worker and returned, every submitted
\* job has returned, none is in the channel and none is executing.
C2_NoJobDroppedByShutdown ==
    pc = "done" =>
        /\ finished = 1..submitted
        /\ Pending = {}
        /\ Executing = {}

\* C2 witness: drop has returned after MaxJobs jobs were submitted, one of
\* them executing and a message still in the channel when drop began.
C2_Witness ==
    /\ pc = "done"
    /\ submitted = MaxJobs
    /\ dropUnderLoad

\* C3: when no job panics and threads are scheduled fairly, a drop that has
\* begun returns, and the only states without a next step are those where
\* drop has returned or where new(0) panicked.
C3_ShutdownCompletes ==
    /\ (pc = "terminating") ~> (pc = "done")
    /\ [](~(ENABLED NextFair) => pc \in {"done", "panicked_new"})

\* C3 witness: drop has returned although a worker was inside a job and
\* messages were queued when it began.
C3_Witness ==
    /\ pc = "done"
    /\ size >= 2
    /\ dropUnderLoad

\* C4: no worker ever matches more than one Terminate, and when drop has
\* returned each of the size workers has matched exactly one.
C4_OneTerminatePerWorker ==
    /\ \A w \in Workers : termsGot[w] <= 1
    /\ pc = "done" =>
          /\ Workers = 0..(size - 1)
          /\ \A w \in Workers : termsGot[w] = 1
          /\ termSent = size
          /\ queue = <<>>

\* C4 witness: drop has returned for a pool of MaxSize workers.
C4_Witness ==
    /\ pc = "done"
    /\ size = MaxSize
    /\ \A w \in Workers : termsGot[w] = 1

\* C5: when no job panics and threads are scheduled fairly, every job
\* submitted by execute is eventually called and returns.
C5_EveryJobEventuallyRuns ==
    \A j \in 1..MaxJobs : (submitted >= j) ~> (j \in finished)

\* C5 witness: a job has returned that waited in the channel while a worker
\* was blocked in recv holding the lock and the pool had not been dropped.
C5_Witness ==
    /\ pc = "live"
    /\ finished = 1..MaxJobs
    /\ \E w \in Workers : wstate[w] = "recv" /\ lock = w

\* C6: a worker holds the receiver Mutex exactly from lock() to the end of
\* the `let message` statement: never while it has the message in hand,
\* executes a job, or has ended.
C6_LockHeldOnlyForDequeue ==
    \A w \in Workers :
        /\ wstate[w] \in {"matching", "executing", "terminated", "panicked"}
              => lock # w
        /\ lock = w => wstate[w] \in {"recv", "received"}

\* C6 witness: one worker executes a job while another holds the lock.
C6_Witness ==
    \E w, v \in Workers :
        /\ wstate[w] = "executing"
        /\ wstate[v] = "recv"
        /\ lock = v

\* C7: messages are received in the order they were sent: the k-th message
\* received is the k-th message sent, whichever worker receives it, and the
\* channel holds the messages not yet received, oldest first.
C7_GlobalFifo ==
    /\ \A k \in 1..Len(deqLog) : deqLog[k] = k
    /\ \A k \in 1..Len(queue) : queue[k].seq = Len(deqLog) + k
    /\ Len(deqLog) + Len(queue) = enqueued

\* C7 witness: two workers have each received a message, and at least two
\* more messages wait in the channel.
C7_Witness ==
    /\ Len(deqLog) >= 2
    /\ Len(queue) >= 2
    /\ \E w, v \in Workers : w # v /\ msg[w] # NoMsg /\ msg[v] # NoMsg

\* C8: if a worker has called job B and has also called a job A submitted
\* before B, then A has returned: a worker calls its jobs one at a time,
\* in submission order.
C8_SameWorkerRunsInOrder ==
    \A a, b \in 1..MaxJobs :
        (a < b /\ invokers[a] # <<>> /\ invokers[b] # <<>>
               /\ invokers[a][1] = invokers[b][1])
            => a \in finished

\* C8 witness: in a pool of at least two workers, one worker has called
\* job 1 and then job 2, and job 2 is still executing.
C8_Witness ==
    /\ size >= 2
    /\ \E w \in Workers :
          /\ invokers[1] = <<w>>
          /\ invokers[2] = <<w>>
          /\ wstate[w] = "executing"
          /\ msg[w].job = 2

\* C9: new(0) panics with no channel and no worker created, and every pool
\* that was returned has size >= 1 and exactly size workers, with ids
\* 0..size-1.
C9_ZeroSizePanicsBeforeAnyWorker ==
    /\ (size = 0 /\ pc # "init") => pc = "panicked_new"
    /\ pc = "panicked_new" =>
          /\ size = 0
          /\ Workers = {}
          /\ ~channelCreated
          /\ ~senderAlive
          /\ queue = <<>>
    /\ pc \in {"live", "terminating", "joining", "done"} =>
          /\ size >= 1
          /\ Workers = 0..(size - 1)
          /\ Cardinality(Workers) = size

\* C9 witness: new(0) was called and panicked.
C9_Witness == pc = "panicked_new" /\ size = 0

\* The step of an execute call that returns normally.
ExecuteReturns == Execute /\ submitted' = submitted + 1

\* C10: while the pool is live and the channel is open, execute can always
\* take its step and return, whatever the workers do and however many
\* messages are queued; and a step that submits a job appends one NewJob
\* message to the channel and changes nothing else of the pool or workers.
C10_ExecuteNeverWaits ==
    /\ []((pc = "live" /\ ReceiverAlive /\ submitted < MaxJobs)
             => ENABLED ExecuteReturns)
    /\ [][submitted' # submitted =>
             /\ queue' = Append(queue, NewJob(submitted + 1, enqueued + 1))
             /\ submitted' = submitted + 1
             /\ UNCHANGED <<pc, wstate, msg, lock, thread, deqLog, invokers,
                            finished, failed, termsGot>>]_vars

\* C10 witness: the last job was submitted while every worker was inside a
\* job and a message was already queued.
C10_Witness ==
    /\ pc = "live"
    /\ submitted = MaxJobs
    /\ Len(queue) >= 1
    /\ Executing = Workers
    /\ queue[Len(queue)] = NewJob(MaxJobs, enqueued)

\* C11: when drop has stopped, by returning or by panicking on a join that
\* gave Err, it has taken and joined the thread of every worker: the failed
\* join of one worker does not keep drop from joining the workers after it.
C11_JoinFailureDoesNotAbortShutdown ==
    pc \in {"done", "panicked_join"} =>
        \A w \in Workers : thread[w] = "None"

\* The step of an execute call whose send gives Err: the unwrap panics.
ExecutePanics == Execute /\ pc' = "panicked_execute"

\* The thread of every worker has ended, so no clone of the receiver is left.
AllEnded == \A w \in Workers : Ended(w)

\* C12: on a live pool execute panics exactly when the thread of every
\* worker has ended, and then the job is neither enqueued nor counted as
\* submitted; in every other state of a live pool execute succeeds.
C12_ExecuteOnClosedChannelPanics ==
    /\ []((pc = "live" /\ submitted < MaxJobs) =>
             IF AllEnded
               THEN ENABLED ExecutePanics /\ ~(ENABLED ExecuteReturns)
               ELSE ENABLED ExecuteReturns /\ ~(ENABLED ExecutePanics))
    /\ [][(pc # "panicked_execute" /\ pc' = "panicked_execute") =>
             /\ AllEnded
             /\ UNCHANGED <<queue, enqueued, submitted, deqLog, wstate, msg,
                            invokers, finished, failed>>]_vars

\* C12 witness: execute has panicked on a pool whose only worker had ended
\* by the panic of the job it ran, and the channel is left as it was.
C12_Witness ==
    /\ pc = "panicked_execute"
    /\ size >= 1
    /\ AllEnded
    /\ submitted = Cardinality(failed)
    /\ queue = <<>>

\* The workers whose thread has not ended.
Live == {w \in Workers : ~Ended(w)}

\* C13: a worker whose job panicked stays ended for good and receives
\* nothing more; each job failure takes exactly one worker out of the live
\* ones and leaves the Vec of workers as it is; once new has returned, no
\* worker is added and no ended worker becomes live again.
C13_FailedWorkerIsLostForGood ==
    /\ [](Cardinality({w \in Workers : wstate[w] = "panicked"})
             = Cardinality(failed))
    /\ [][/\ \A w \in Workers :
                wstate[w] = "panicked" =>
                    /\ wstate'[w] = "panicked"
                    /\ msg'[w] = msg[w]
                    /\ termsGot'[w] = termsGot[w]
                    /\ lock' # w
          /\ failed' # failed =>
                /\ Workers' = Workers
                /\ Cardinality(Live') = Cardinality(Live) - 1
          /\ pc \notin {"init", "spawning"} =>
                /\ Workers' = Workers
                /\ Live' \subseteq Live]_vars

\* C13 witness: one worker has ended by the panic of its job while the pool
\* is live, and another worker is executing a job.
C13_Witness ==
    /\ pc = "live"
    /\ \E w, v \in Workers :
          /\ wstate[w] = "panicked"
          /\ wstate[v] = "executing"
    /\ Cardinality(Live) = size - 1

\* The Terminate messages sent so far: every message sent is a NewJob of
\* execute or a Terminate of drop.
TerminatesEnqueued == enqueued - submitted

\* C14: drop never sends more Terminates than there are workers; whenever
\* drop is in its second loop, or has taken the thread of some worker to
\* join it, exactly size Terminates have been sent; and from the second
\* loop on no message is sent any more.
C14_ShutdownIsTwoPhase ==
    /\ [](TerminatesEnqueued <= size)
    /\ []((pc = "joining" \/ \E w \in Workers : thread[w] = "None") =>
             /\ TerminatesEnqueued = size
             /\ size = Cardinality(Workers))
    /\ [][(pc \in {"joining", "done", "panicked_join"}) =>
             /\ Len(queue') <= Len(queue)
             /\ enqueued' = enqueued]_vars

\* C14 witness: drop has joined one worker and waits on the join of the
\* next, whose thread has not ended.
C14_Witness ==
    /\ pc = "joining"
    /\ joinIdx >= 1
    /\ joinIdx < size
    /\ ~Ended(joinIdx)
    /\ TerminatesEnqueued = size

\* The workers that are between lock() and the end of the `let message`
\* statement.
InDequeue == {w \in Workers : wstate[w] \in {"recv", "received"}}

\* The messages delivered to worker w: the jobs it called, the Terminates
\* it matched, and the message it has received and not yet matched.
Delivered(w) ==
    Cardinality({j \in 1..MaxJobs :
                    \E i \in 1..Len(invokers[j]) : invokers[j][i] = w})
    + termsGot[w]
    + (IF wstate[w] \in {"received", "matching"} THEN 1 ELSE 0)

\* The messages delivered to the workers with ids below n.
RECURSIVE DeliveredBelow(_)
DeliveredBelow(n) ==
    IF n = 0 THEN 0 ELSE Delivered(n - 1) + DeliveredBelow(n - 1)

\* C15: at most one worker is between lock() and the end of its dequeue,
\* and it is the holder of the Mutex; every message sent is either still
\* in the channel or was received once, and the messages received are
\* exactly those delivered to the workers, each to one worker.
C15_DequeuesAreMutuallyExclusive ==
    /\ Cardinality(InDequeue) <= 1
    /\ InDequeue = IF lock = NoHolder THEN {} ELSE {lock}
    /\ \A i, k \in 1..Len(deqLog) : i # k => deqLog[i] # deqLog[k]
    /\ \A i \in 1..Len(queue) : \A k \in 1..Len(deqLog) :
          queue[i].seq # deqLog[k]
    /\ \A i, k \in 1..Len(queue) : i # k => queue[i].seq # queue[k].seq
    /\ Len(queue) + Len(deqLog) = enqueued
    /\ DeliveredBelow(Cardinality(Workers)) = Len(deqLog)

\* C15 witness: one worker holds the Mutex inside recv while another waits
\* at lock() and a third message of the channel has gone to a third worker.
C15_Witness ==
    \E w, v, u \in Workers :
        /\ w # v /\ v # u /\ w # u
        /\ wstate[w] = "received"
        /\ wstate[v] = "idle"
        /\ wstate[u] = "executing"
        /\ Delivered(v) >= 1

\* The smaller of two numbers.
Min(a, b) == IF a <= b THEN a ELSE b

\* C16: however many workers are inside job(), a worker at lock() can take
\* the Mutex whenever no worker is in its dequeue, and the worker inside
\* recv can take the next message whenever the channel is not empty; the
\* workers inside job() are never more than the pool size or the number of
\* jobs submitted.
C16_JobsRunConcurrently ==
    /\ \A w \in Workers :
          /\ (wstate[w] = "idle" /\ InDequeue = {}) => ENABLED Lock(w)
          /\ (wstate[w] = "recv" /\ queue # <<>>) => ENABLED Recv(w)
    /\ Cardinality(Executing) <= Min(size, submitted)

\* C16 witness: with 3 workers and 2 jobs, min(3, 2) = 2 workers are inside
\* job() at the same time while the third worker has taken the Mutex and
\* received the next message of the channel.
C16_Witness ==
    /\ size = 3
    /\ submitted = 2
    /\ Cardinality(Executing) = Min(size, submitted)
    /\ \E w \in Workers :
          /\ wstate[w] = "received"
          /\ lock = w
          /\ msg[w].seq = 3

\* The state of the worker state machine that a position of the worker's
\* thread belongs to.  A thread ended by the panic of its job is in none of
\* Idle, Dequeuing, Executing, Terminated.
Phase(s) ==
    CASE s = "idle" -> "Idle"
      [] s \in {"recv", "received", "matching"} -> "Dequeuing"
      [] s = "executing" -> "Executing"
      [] s = "terminated" -> "Terminated"
      [] s = "panicked" -> "Failed"

\* The transitions Idle -> Dequeuing -> (Executing -> Idle | Terminated).
MachineSteps ==
    {<<"Idle", "Dequeuing">>, <<"Dequeuing", "Executing">>,
     <<"Dequeuing", "Terminated">>, <<"Executing", "Idle">>}

\* Worker w goes from one state of the machine to another, or gets the lock
\* or a message, only along the transitions of T; a new worker starts Idle;
\* a worker that is Terminated or Failed changes nothing any more; and a
\* worker leaves Executing only in a step that ends its job.
FollowsMachine(T) ==
    /\ \A w \in Workers' \ Workers : Phase(wstate'[w]) = "Idle"
    /\ \A w \in Workers :
          /\ Phase(wstate'[w]) # Phase(wstate[w]) =>
                <<Phase(wstate[w]), Phase(wstate'[w])>> \in T
          /\ Phase(wstate[w]) \in {"Terminated", "Failed"} =>
                /\ wstate'[w] = wstate[w]
                /\ msg'[w] = msg[w]
                /\ termsGot'[w] = termsGot[w]
                /\ lock' # w
                /\ Delivered(w)' = Delivered(w)
          /\ (Phase(wstate[w]) = "Executing"
                /\ Phase(wstate'[w]) # "Executing") =>
                /\ msg[w].type = "NewJob"
                /\ msg[w].job \in (finished' \cup failed') \ (finished \cup failed)
          /\ (Phase(wstate[w]) = "Executing"
                /\ Phase(wstate'[w]) = "Executing") =>
                msg'[w] = msg[w]

\* C17 as stated: every worker follows the machine
\* Idle -> Dequeuing -> (Executing -> Idle | Terminated), Terminated is
\* absorbing, and Executing is left only when the job finishes.
C17_WorkerStateMachine == [][FollowsMachine(MachineSteps)]_vars

\* C17 as amended: the machine has one more transition, from Executing to
\* a terminal Failed state, taken when the job panics; Terminated and
\* Failed are both absorbing, and Executing is left only in the step in
\* which the job returns or panics.
C17_WorkerStateMachineWithFailure ==
    [][FollowsMachine(MachineSteps \cup {<<"Executing", "Failed">>})]_vars

\* C17 witness: drop is joining; one worker has called a job, returned to
\* the loop, matched a Terminate and is Terminated, while another worker is
\* still inside its job with its Terminate waiting in the channel.
C17_Witness ==
    /\ pc = "joining"
    /\ \E w, v \in Workers :
          /\ wstate[w] = "terminated"
          /\ \E j \in 1..MaxJobs : invokers[j] = <<w>> /\ j \in finished
          /\ wstate[v] = "executing"
          /\ queue # <<>>

\* No thread can take a step.
Stuck == ~(ENABLED NextDropVariants)

\* C18: when no job panics, the drop of the code never gets stuck: the
\* program can stop only when drop has returned, when new(0) panicked, or
\* inside the join of the single-loop drop; and the single-loop drop gets
\* stuck only in a pool of two or more workers, joining a worker that waits
\* for a message, inside recv or at lock() behind a worker inside recv, on
\* an empty channel after a later worker took its Terminate.
C18_OnlySinglePassDeadlocks ==
    Stuck =>
        \/ pc \in {"done", "panicked_new"}
        \/ /\ pc = "single_join"
           /\ size >= 2
           /\ \A w \in Live : wstate[w] \in {"idle", "recv"}
           /\ \E w \in Live : wstate[w] = "recv" /\ lock = w
           /\ joinIdx \in Live
           /\ queue = <<>>
           /\ termSent = joinIdx + 1
           /\ \E v \in Workers : v > joinIdx /\ wstate[v] = "terminated"

\* C18 witness: the deadlock of the comment.  Worker 0 ran a job, worker 1
\* took the Terminate sent first and ended, the single-loop drop waits in
\* the join of worker 0, which waits in recv, and no thread can step.
C18_Witness ==
    /\ Stuck
    /\ pc = "single_join"
    /\ joinIdx = 0
    /\ invokers[1] = <<0>>
    /\ wstate[0] = "recv"
    /\ wstate[1] = "terminated"

\* Some worker has received a Terminate.
TerminateDequeued ==
    \E w \in Workers :
        \/ termsGot[w] >= 1
        \/ wstate[w] \in {"received", "matching"} /\ msg[w].type = "Terminate"

\* A NewJob message is in the channel.
NewJobQueued == \E i \in 1..Len(queue) : queue[i].type = "NewJob"

\* C19: in the channel every NewJob is ahead of every Terminate, and once a
\* worker has received a Terminate no NewJob is left in the channel: no
\* worker exits while a job is still queued.
C19_JobsDequeuedBeforeTerminates ==
    /\ \A i, k \in 1..Len(queue) :
          (i < k /\ queue[i].type = "Terminate") => queue[k].type = "Terminate"
    /\ TerminateDequeued => ~NewJobQueued
    /\ NewJobQueued => \A w \in Workers : wstate[w] # "terminated"

\* C19 witness: all jobs were submitted, one worker has matched its
\* Terminate and ended while another is still inside a job, and only
\* Terminates are left in the channel.
C19_Witness ==
    /\ submitted = MaxJobs
    /\ queue # <<>>
    /\ \E w, v \in Workers :
          /\ wstate[w] = "terminated"
          /\ wstate[v] = "executing"
          /\ msg[v].job = MaxJobs

\* C20: the Mutex is only ever held by a worker whose thread has not
\* ended, so no panic happens under the guard and poisons it; the step in
\* which a job panics changes nothing of the lock, the channel or any other
\* worker; and once jobs have failed in a live pool, every remaining worker
\* can still go on: take a free lock, receive from a non-empty channel,
\* match its message, and messages are still received in sending order and
\* no job is called twice.
C20_FailureLeavesOtherWorkersRunning ==
    /\ [](lock # NoHolder => lock \in Live)
    /\ []((failed # {} /\ pc = "live") =>
             /\ \A w \in Live :
                   /\ (wstate[w] = "idle" /\ InDequeue = {})
                         => ENABLED Lock(w)
                   /\ (wstate[w] = "recv" /\ queue # <<>>)
                         => ENABLED Recv(w)
                   /\ wstate[w] = "received" => ENABLED Unlock(w)
                   /\ wstate[w] = "matching" => ENABLED Match(w)
                   /\ wstate[w] = "executing" => ENABLED JobReturn(w)
             /\ \A k \in 1..Len(deqLog) : deqLog[k] = k
             /\ \A j \in 1..MaxJobs : Len(invokers[j]) <= 1)
    /\ [][failed' # failed =>
             /\ lock' = lock
             /\ queue' = queue
             /\ deqLog' = deqLog
             /\ pc' = pc
             /\ \E w \in Workers :
                   /\ wstate[w] = "executing"
                   /\ lock # w
                   /\ \A v \in Workers \ {w} :
                         /\ wstate'[v] = wstate[v]
                         /\ msg'[v] = msg[v]]_vars

\* C20 witness: in a live pool of 3 workers two jobs have failed and ended
\* two workers, and the third worker holds the lock inside recv.
C20_Witness ==
    /\ pc = "live"
    /\ size = 3
    /\ Cardinality(failed) = 2
    /\ Cardinality(Live) = 1
    /\ \E w \in Live : wstate[w] = "recv" /\ lock = w

====
